---- MODULE Spec2Model ----
(***************************************************************************)
(* Cross-space bridge of conflux-rust                                      *)
(* (core/src/executive/internal_contract/impls/cross_space.rs).            *)
(*                                                                         *)
(* Spec        : the producing side.  call_to_evmcore, create_to_evmcore   *)
(*               and withdraw_from_evmcore run against the ledger state    *)
(*               (balances, nonces, the log accumulator); a call or create *)
(*               traps to the scheduler, the nested EVM frame emits its    *)
(*               logs, and the continuation (Resume -> PassResult::exec)   *)
(*               finalizes.                                                *)
(* SpecRecover : recover_phantom, one loop iteration per step, over        *)
(*               arbitrary bounded log streams.                            *)
(***************************************************************************)
EXTENDS Integers, Sequences, FiniteSets, TLC

VARIABLES balance, nonce, logs, pending, last,
          rlogs, ri, gas_price, phantom_txs, maybe_working_tx, fault

vars == <<balance, nonce, logs, pending, last,
          rlogs, ri, gas_price, phantom_txs, maybe_working_tx, fault>>

prodVars == <<balance, nonce, logs, pending, last>>
recVars == <<rlogs, ri, gas_price, phantom_txs, maybe_working_tx, fault>>

(***************************************************************************)
(* Bounds of the model.                                                    *)
(***************************************************************************)
MaxLogs == 4
MaxBumps == 4
MaxStream == 4
MaxGas == 40

(***************************************************************************)
(* Program constants.                                                      *)
(***************************************************************************)
CROSS_SPACE_GAS_RATIO == 10
call_stipend == 2300
max_depth == 1024
memory_gas == 3
tx_gas == 21000
tx_create_gas == 53000
tx_data_zero_gas == 4
tx_data_non_zero_gas == 68
account_start_nonce == 0
TRANSACTION_OUTCOME_SUCCESS == 0
TRANSACTION_OUTCOME_EXCEPTION_WITH_NONCE_BUMPING == 1

(***************************************************************************)
(* Addresses.  A raw address is a small integer; an AddressWithSpace is a  *)
(* record (address, space).                                                *)
(***************************************************************************)
ZeroAddress == 0
CROSS_SPACE_CONTRACT_ADDRESS == 6
Users == {1, 2}
Receivers == {50}

with_native_space(a) == [address |-> a, space |-> "Native"]
with_evm_space(a) == [address |-> a, space |-> "Ethereum"]

\* keccak over an address: an injective map into a range disjoint from the
\* raw addresses of the model
keccak(a) == 100 + a

evm_map(address) == with_evm_space(keccak(address))

Accounts ==
    {with_native_space(a) : a \in Users \cup {CROSS_SPACE_CONTRACT_ADDRESS}}
        \cup {evm_map(a) : a \in Users}

(***************************************************************************)
(* State accessor.                                                         *)
(***************************************************************************)
transfer_balance(bal, from, to, by) ==
    IF from = to THEN bal
    ELSE [bal EXCEPT ![from] = @ - by, ![to] = @ + by]

inc_nonce(n, a) == [n EXCEPT ![a] = @ + 1]

(***************************************************************************)
(* Bytes and the ABI encoding of return data.                              *)
(***************************************************************************)
RECURSIVE Zeros(_)
Zeros(n) == IF n = 0 THEN <<>> ELSE <<0>> \o Zeros(n - 1)

\* a 32-byte big-endian word holding n (n < 256)
Word32(n) == Zeros(31) \o <<n>>

PadTo32(bytes) == bytes \o Zeros((32 - (Len(bytes) % 32)) % 32)

\* Vec<u8>::abi_encode: offset word, length word, right-padded contents
abi_encode_bytes(data) == Word32(32) \o Word32(Len(data)) \o PadTo32(data)

\* [u8; 20]::abi_encode: one 32-byte slot holding the 20 address bytes
abi_encode_bytes20(a) == PadTo32(<<a>> \o Zeros(19))

(***************************************************************************)
(* Events (SolidityEventTrait::log appends one entry to the accumulator:   *)
(* emitter = params.address in the native space, topics = signature and    *)
(* indexed fields, data = the tuple of the remaining fields).              *)
(***************************************************************************)
CallEventSig == "CallEvent"
CreateEventSig == "CreateEvent"
WithdrawEventSig == "WithdrawEvent"
ReturnEventSig == "ReturnEvent"

EventLog(sig, indexed, nonindexed, params) ==
    [address |-> params.address, space |-> "Native",
     topics |-> <<sig>> \o indexed, data |-> nonindexed]

(***************************************************************************)
(* call_to_evmcore / create_to_evmcore: the gas split.                     *)
(***************************************************************************)
\* faulty variant: the stipend is added whether or not value is transferred
forwarded_gas_always_stipend(gas_left, value) ==
    (gas_left \div CROSS_SPACE_GAS_RATIO) + call_stipend

forwarded_gas(gas_left, value) ==
    (gas_left \div CROSS_SPACE_GAS_RATIO)
        + (IF value > 0 THEN call_stipend ELSE 0)

retained_gas(gas_left) == gas_left - (gas_left \div CROSS_SPACE_GAS_RATIO)

(***************************************************************************)
(* Results.  A handler returns [ok, err, trap]; the state it leaves is     *)
(* returned beside it as ctx = [balance, nonce, logs].                     *)
(***************************************************************************)
\* faulty variant: one frame too deep passes
depth_exceeded_off_by_one(depth) == depth > max_depth

\* the depth check of call_to_evmcore and create_to_evmcore
depth_exceeded(depth) == depth >= max_depth

NoTrap == [kind |-> "None"]
NoError == "None"

Ctx(b, n, l) == [balance |-> b, nonce |-> n, logs |-> l]

\* Option<H256>: None is the empty sequence, Some(s) the sequence <<s>>
NoSalt == <<>>

\* executive::contract_address: the address of the contract to be created,
\* from (sender, nonce) or from (sender, salt, code hash)
contract_address(salt, mapped_sender, sender_nonce, init) ==
    IF salt = NoSalt THEN 200 + sender_nonce
                     ELSE 300 + salt[1] + Len(init)

\* faulty variant: the nonce is read after it was incremented
CallEventLog_nonce_after(mapped_sender, address, value, nonce0, call_gas, data, params) ==
    EventLog(CallEventSig, <<mapped_sender.address, address.address>>,
             <<value, nonce0 + 1, call_gas, data>>, params)

CallEventLog(mapped_sender, address, value, nonce0, call_gas, data, params) ==
    EventLog(CallEventSig, <<mapped_sender.address, address.address>>,
             <<value, nonce0, call_gas, data>>, params)

call_to_evmcore(receiver, data, call_type, params, gas_left, depth, ctx) ==
    IF depth_exceeded(depth)
    THEN [ok |-> FALSE, err |-> "Exceed Depth", trap |-> NoTrap, ctx |-> ctx]
    ELSE
      LET call_gas == forwarded_gas(gas_left, params.value)
          reserved_gas == retained_gas(gas_left)
          mapped_sender == evm_map(params.sender)
          mapped_origin == evm_map(params.original_sender)
          balance1 == transfer_balance(ctx.balance,
                          with_native_space(params.address), mapped_sender,
                          params.value)
          address == with_evm_space(receiver)
          next_params ==
              [space |-> "Ethereum", sender |-> mapped_sender.address,
               address |-> address.address, value |-> params.value,
               original_sender |-> mapped_origin.address,
               storage_owner |-> mapped_sender.address,
               gas |-> call_gas, data |-> data, call_type |-> call_type,
               create_type |-> "None", params_type |-> "Separate"]
          nonce0 == ctx.nonce[mapped_sender]
          nonce1 == inc_nonce(ctx.nonce, mapped_sender)
          logs1 == IF call_type = "Call"
                   THEN Append(ctx.logs,
                            CallEventLog(mapped_sender, address, params.value,
                                         nonce0, call_gas, data, params))
                   ELSE ctx.logs
      IN [ok |-> TRUE, err |-> NoError,
          trap |-> [kind |-> "Call", next_params |-> next_params,
                    resume |-> [params |-> params,
                                gas_retained |-> reserved_gas]],
          ctx |-> Ctx(balance1, nonce1, logs1)]

create_to_evmcore(init, salt, params, gas_left, depth, ctx) ==
    IF depth_exceeded(depth)
    THEN [ok |-> FALSE, err |-> "Exceed Depth", trap |-> NoTrap, ctx |-> ctx]
    ELSE
      LET call_gas == forwarded_gas(gas_left, params.value)
          reserved_gas == retained_gas(gas_left)
          mapped_sender == evm_map(params.sender)
          mapped_origin == evm_map(params.original_sender)
          balance1 == transfer_balance(ctx.balance,
                          with_native_space(params.address), mapped_sender,
                          params.value)
          create_type == IF salt = NoSalt THEN "CREATE" ELSE "CREATE2"
          address == contract_address(salt, mapped_sender,
                                      ctx.nonce[mapped_sender], init)
          next_params ==
              [space |-> "Ethereum", sender |-> mapped_sender.address,
               address |-> address, value |-> params.value,
               original_sender |-> mapped_origin.address,
               storage_owner |-> ZeroAddress,
               gas |-> call_gas, data |-> init, call_type |-> "None",
               create_type |-> create_type, params_type |-> "Embedded"]
          nonce0 == ctx.nonce[mapped_sender]
          nonce1 == inc_nonce(ctx.nonce, mapped_sender)
          logs1 == Append(ctx.logs,
                       EventLog(CreateEventSig,
                                <<mapped_sender.address, address>>,
                                <<params.value, nonce0, call_gas, init>>,
                                params))
      IN [ok |-> TRUE, err |-> NoError,
          trap |-> [kind |-> "Create", next_params |-> next_params,
                    resume |-> [params |-> params,
                                gas_retained |-> reserved_gas]],
          ctx |-> Ctx(balance1, nonce1, logs1)]

(***************************************************************************)
(* withdraw_from_evmcore                                                   *)
(***************************************************************************)
\* faulty variant: a withdrawal of the whole balance is refused
insufficient_balance_inclusive(bal, value) == bal <= value

\* the balance check of withdraw_from_evmcore
insufficient_balance(bal, value) == bal < value

WithdrawEventLog(mapped_address, sender, value, params, nonce0) ==
    EventLog(WithdrawEventSig, <<mapped_address.address, sender>>,
             <<params.value, nonce0>>, params)

withdraw_from_evmcore(sender, value, params, ctx) ==
    LET mapped_address == evm_map(sender)
        bal == ctx.balance[mapped_address]
    IN IF insufficient_balance(bal, value)
       THEN [ok |-> FALSE,
             err |-> "Not enough balance for withdrawing from mapped address",
             trap |-> NoTrap, ctx |-> ctx]
       ELSE
         LET balance1 == transfer_balance(ctx.balance, mapped_address,
                             with_native_space(sender), value)
             nonce0 == ctx.nonce[mapped_address]
             nonce1 == inc_nonce(ctx.nonce, mapped_address)
             logs1 == Append(ctx.logs,
                          WithdrawEventLog(mapped_address, sender, value,
                                           params, nonce0))
         IN [ok |-> TRUE, err |-> NoError, trap |-> NoTrap,
             ctx |-> Ctx(balance1, nonce1, logs1)]

(***************************************************************************)
(* Resume: the continuation.  A sub-execution outcome is a record          *)
(* [tag, gas_left, data, address, err].                                    *)
(***************************************************************************)
OkData(bytes) == [ok |-> TRUE, data |-> bytes, err |-> NoError]
ErrData(e) == [ok |-> FALSE, data |-> <<>>, err |-> e]

resume_create(resume, result) ==
    CASE result.tag = "Created" ->
           [resume |-> resume, gas_left |-> result.gas_left,
            return_data |-> OkData(abi_encode_bytes20(result.address)),
            apply_state |-> TRUE]
      [] result.tag = "Failed" ->
           [resume |-> resume, gas_left |-> 0,
            return_data |-> ErrData(result.err), apply_state |-> FALSE]
      [] result.tag = "Reverted" ->
           [resume |-> resume, gas_left |-> result.gas_left,
            return_data |-> OkData(result.data), apply_state |-> FALSE]

resume_call(resume, result) ==
    CASE result.tag = "Success" ->
           [resume |-> resume, gas_left |-> result.gas_left,
            return_data |-> OkData(abi_encode_bytes(result.data)),
            apply_state |-> TRUE]
      [] result.tag = "Failed" ->
           [resume |-> resume, gas_left |-> 0,
            return_data |-> ErrData(result.err), apply_state |-> FALSE]
      [] result.tag = "Reverted" ->
           [resume |-> resume, gas_left |-> result.gas_left,
            return_data |-> OkData(result.data), apply_state |-> FALSE]

(***************************************************************************)
(* PassResult::exec                                                        *)
(***************************************************************************)
\* faulty variant: the nonce is read after it was incremented
ReturnEventLog_nonce_after(nonce0, gas_left, apply_state, params) ==
    EventLog(ReturnEventSig, <<>>, <<nonce0 + 1, gas_left, apply_state>>,
             params)

ReturnEventLog(nonce0, gas_left, apply_state, params) ==
    EventLog(ReturnEventSig, <<>>, <<nonce0, gas_left, apply_state>>, params)

\* faulty variant: the nonce is incremented but no ReturnEvent is appended
log_return_without_event(pass, ctx) ==
    Ctx(ctx.balance,
        inc_nonce(ctx.nonce, evm_map(pass.resume.params.sender)),
        ctx.logs)

\* faulty variant: the ReturnEvent carries the gas the caller gets back
log_return_total_gas(pass, ctx) ==
    Ctx(ctx.balance,
        inc_nonce(ctx.nonce, evm_map(pass.resume.params.sender)),
        Append(ctx.logs,
               ReturnEventLog(ctx.nonce[evm_map(pass.resume.params.sender)],
                              pass.gas_left + pass.resume.gas_retained,
                              pass.apply_state, pass.resume.params)))

\* faulty variant: the ReturnEvent is appended but the nonce stays
log_return_without_increment(pass, ctx) ==
    Ctx(ctx.balance, ctx.nonce,
        Append(ctx.logs,
               ReturnEventLog(ctx.nonce[evm_map(pass.resume.params.sender)],
                              pass.gas_left, pass.apply_state,
                              pass.resume.params)))

\* faulty variant: the ReturnEvent is put in front of the logs of the frame
log_return_at_front(pass, ctx) ==
    Ctx(ctx.balance,
        inc_nonce(ctx.nonce, evm_map(pass.resume.params.sender)),
        <<ReturnEventLog(ctx.nonce[evm_map(pass.resume.params.sender)],
                         pass.gas_left, pass.apply_state,
                         pass.resume.params)>> \o ctx.logs)

\* the closure log_return of PassResult::exec
log_return(pass, ctx) ==
    LET params == pass.resume.params
        mapped_sender == evm_map(params.sender)
        nonce0 == ctx.nonce[mapped_sender]
    IN Ctx(ctx.balance, inc_nonce(ctx.nonce, mapped_sender),
           Append(ctx.logs,
                  ReturnEventLog(nonce0, pass.gas_left, pass.apply_state,
                                 params)))

\* faulty variant: the words of the return data are rounded down
return_cost_rounded_down(length) == (length \div 32) * memory_gas

return_cost(length) == ((length + 31) \div 32) * memory_gas

PassResult_exec(pass, ctx) ==
    LET ctx1 == log_return(pass, ctx)
        cost == return_cost(Len(pass.return_data.data))
        gas_left == pass.gas_left + pass.resume.gas_retained
        out_of_gas == pass.return_data.ok /\ gas_left < cost
        gas_returned == IF pass.return_data.ok /\ ~out_of_gas
                        THEN gas_left - cost ELSE 0
        return_data == IF out_of_gas THEN ErrData("OutOfGas")
                       ELSE pass.return_data
        apply_state == IF out_of_gas THEN FALSE ELSE pass.apply_state
    IN IF return_data.ok
       THEN [ok |-> TRUE, err |-> NoError, gas_left |-> gas_returned,
             data |-> return_data.data, apply_state |-> apply_state,
             ctx |-> ctx1]
       ELSE [ok |-> FALSE, err |-> return_data.err, gas_left |-> 0,
             data |-> <<>>, apply_state |-> FALSE, ctx |-> ctx1]

(***************************************************************************)
(* PhantomTransaction                                                      *)
(***************************************************************************)
ActionCall(to) == [kind |-> "Call", to |-> to]
ActionCreate == [kind |-> "Create", to |-> ZeroAddress]

EmptyBloom == {}

\* #[derive(Default)]
DefaultPhantomTransaction ==
    [from |-> ZeroAddress, nonce |-> 0, action |-> ActionCreate,
     gas_limit |-> 0, value |-> 0, data |-> <<>>, gas_used |-> 0,
     log_bloom |-> EmptyBloom, logs |-> <<>>,
     outcome_status |-> TRANSACTION_OUTCOME_SUCCESS]

simple_transfer(from, to, nonce0, value) ==
    [DefaultPhantomTransaction EXCEPT
        !.from = from, !.nonce = nonce0, !.action = ActionCall(to),
        !.gas_limit = tx_gas, !.value = value, !.data = <<>>,
        !.gas_used = tx_gas, !.outcome_status = TRANSACTION_OUTCOME_SUCCESS]

\* the bits a topic sets in a bloom filter
TopicBit(t) ==
    CASE t = "Transfer" -> 1001
      [] t = "Approval" -> 1002
      [] t = CallEventSig -> 1003
      [] t = CreateEventSig -> 1004
      [] t = WithdrawEventSig -> 1005
      [] t = ReturnEventSig -> 1006
      [] OTHER -> 1007

\* LogEntry::bloom: the emitter's address and every topic
LogBloom(l) == {l.address} \cup {TopicBit(l.topics[i]) : i \in 1 .. Len(l.topics)}

accrue_bloom(b, other) == b \cup other

\* faulty variant: the bloom of the last log replaces the accrued one
FoldBloom_last_only(ls) ==
    IF ls = <<>> THEN EmptyBloom ELSE LogBloom(ls[Len(ls)])

RECURSIVE FoldBloom(_)
FoldBloom(ls) ==
    IF ls = <<>> THEN EmptyBloom
    ELSE accrue_bloom(FoldBloom(SubSeq(ls, 1, Len(ls) - 1)),
                      LogBloom(ls[Len(ls)]))

\* executive::gas_required_for: the intrinsic gas of a transaction
RECURSIVE DataGas(_)
DataGas(data) ==
    IF data = <<>> THEN 0
    ELSE (IF data[1] = 0 THEN tx_data_zero_gas ELSE tx_data_non_zero_gas)
            + DataGas(Tail(data))

gas_required_for(is_create, data) ==
    (IF is_create THEN tx_create_gas ELSE tx_gas) + DataGas(data)

(***************************************************************************)
(* recover_phantom.  The state of the loop is [phantom_txs,                *)
(* maybe_working_tx, fault]; maybe_working_tx is <<>> (None) or <<tx>>     *)
(* (Some(tx)); fault names the panic that ended the pass, if any.          *)
(***************************************************************************)
NoFault == "None"

RecState(txs, working, f) ==
    [phantom_txs |-> txs, maybe_working_tx |-> working, fault |-> f]

Abort(st, f) == RecState(st.phantom_txs, st.maybe_working_tx, f)

\* faulty variant: the funding transfer forgets the value of the call
funding_value_gas_only(value, gas_limit, price) == gas_limit * price

\* what the funding transfer and the refund transfer carry
funding_value(value, gas_limit, price) == value + gas_limit * price

\* faulty variant: the refund forgets the gas price
refund_value_without_price(gas_left, price) == gas_left

refund_value(gas_left, price) == gas_left * price

\* faulty variant: the slot is overwritten without the assertion
recover_open_without_assert(st, log, price) ==
    LET is_create == log.topics[1] = CreateEventSig
        gas_limit == log.data[3] + gas_required_for(is_create, log.data[4])
    IN RecState(
          Append(st.phantom_txs,
                 simple_transfer(ZeroAddress, log.topics[2], 0,
                                 funding_value(log.data[1], gas_limit, price))),
          <<[DefaultPhantomTransaction EXCEPT
                !.from = log.topics[2], !.nonce = log.data[2],
                !.action = IF is_create THEN ActionCreate
                           ELSE ActionCall(log.topics[3]),
                !.value = log.data[1], !.gas_limit = gas_limit,
                !.data = log.data[4]]>>,
          NoFault)

\* the arm of CallEvent and CreateEvent
recover_open(st, log, price) ==
    IF st.maybe_working_tx # <<>> THEN Abort(st, "assert_is_none")
    ELSE
      LET value == log.data[1]
          nonce0 == log.data[2]
          data == log.data[4]
          from == log.topics[2]
          to == log.topics[3]
          is_create == log.topics[1] = CreateEventSig
          gas_limit == log.data[3] + gas_required_for(is_create, data)
          action == IF is_create THEN ActionCreate ELSE ActionCall(to)
      IN RecState(
            Append(st.phantom_txs,
                   simple_transfer(ZeroAddress, from, 0,
                                   funding_value(value, gas_limit, price))),
            <<[DefaultPhantomTransaction EXCEPT
                  !.from = from, !.nonce = nonce0, !.action = action,
                  !.value = value, !.gas_limit = gas_limit,
                  !.data = data]>>,
            NoFault)

\* faulty variant: the withdrawal takes the open phantom out of its slot
recover_withdraw_takes_slot(st, log, price) ==
    RecState(
       Append(st.phantom_txs,
              simple_transfer(log.topics[2], ZeroAddress, log.data[2],
                              log.data[1])),
       <<>>, NoFault)

\* the arm of WithdrawEvent
recover_withdraw(st, log, price) ==
    LET from == log.topics[2]
        value == log.data[1]
        nonce0 == log.data[2]
    IN RecState(
          Append(st.phantom_txs,
                 simple_transfer(from, ZeroAddress, nonce0, value)),
          st.maybe_working_tx, NoFault)

\* the arm of ReturnEvent
recover_return(st, log, price) ==
    LET nonce0 == log.data[1]
        gas_left == log.data[2]
        success == log.data[3]
    IN IF st.maybe_working_tx = <<>> THEN Abort(st, "unwrap_none")
       ELSE
         LET working_tx == st.maybe_working_tx[1]
         IN IF gas_left > working_tx.gas_limit
            THEN RecState(st.phantom_txs, <<>>, "sub_overflow")
            ELSE
              LET closed ==
                    [working_tx EXCEPT
                       !.gas_used = working_tx.gas_limit - gas_left,
                       !.outcome_status =
                          IF success THEN TRANSACTION_OUTCOME_SUCCESS
                          ELSE TRANSACTION_OUTCOME_EXCEPTION_WITH_NONCE_BUMPING,
                       !.log_bloom = FoldBloom(working_tx.logs)]
              IN RecState(
                    Append(Append(st.phantom_txs, closed),
                           simple_transfer(closed.from, ZeroAddress, nonce0,
                                           refund_value(gas_left, price))),
                    <<>>, NoFault)

\* the arm of a log that is not the bridge's
recover_attach(st, log) ==
    IF log.space = "Ethereum" /\ st.maybe_working_tx # <<>>
    THEN RecState(st.phantom_txs,
                  <<[st.maybe_working_tx[1] EXCEPT
                        !.logs = Append(@, log)]>>,
                  NoFault)
    ELSE st

\* one iteration of the loop
recover_step(st, log, price) ==
    IF log.address = CROSS_SPACE_CONTRACT_ADDRESS
    THEN IF log.topics = <<>> THEN Abort(st, "unwrap_none_topic")
         ELSE LET event_sig == log.topics[1]
              IN CASE event_sig = CallEventSig \/ event_sig = CreateEventSig
                        -> recover_open(st, log, price)
                   [] event_sig = WithdrawEventSig
                        -> recover_withdraw(st, log, price)
                   [] event_sig = ReturnEventSig
                        -> recover_return(st, log, price)
                   [] OTHER -> st
    ELSE recover_attach(st, log)

\* the whole pass over a stream
RECURSIVE recover_phantom(_, _)
recover_phantom(stream, price) ==
    IF stream = <<>> THEN RecState(<<>>, <<>>, NoFault)
    ELSE LET before == recover_phantom(SubSeq(stream, 1, Len(stream) - 1),
                                       price)
         IN IF before.fault # NoFault THEN before
            ELSE recover_step(before, stream[Len(stream)], price)

(***************************************************************************)
(* Inputs of the producing side.                                           *)
(***************************************************************************)
CallTypes == {"Call", "StaticCall", "DelegateCall", "CallCode"}
Datas == {<<>>, <<7>>}
Salts == {NoSalt, <<1>>}
\* (gas_left, params.value) of an initiation
GasAndValue == {<<0, 0>>, <<105, 0>>, <<105, 1>>}
Depths == {max_depth - 1, max_depth}
Values == {0, 1}
WithdrawValues == {0, 1}
CallDatas == {<<7>>}
VmErrors == {"BadInstruction"}

Params(sender, value) ==
    [sender |-> sender, address |-> CROSS_SPACE_CONTRACT_ADDRESS,
     original_sender |-> sender, value |-> value]

\* the outcomes a sub-frame can hand to its continuation: it has GasLeft of
\* its gas left (nothing after a failure) and returns one of ReturnDatas
CallOutcomes(GasLeft, ReturnDatas) ==
    [tag : {"Success"}, gas_left : GasLeft, data : ReturnDatas \ {<<>>},
     address : {ZeroAddress}, err : {NoError}]
    \cup [tag : {"Reverted"}, gas_left : GasLeft, data : ReturnDatas,
          address : {ZeroAddress}, err : {NoError}]
    \cup [tag : {"Failed"}, gas_left : {0}, data : {<<>>},
          address : {ZeroAddress}, err : VmErrors]

CreateOutcomes(GasLeft, ReturnDatas, address) ==
    [tag : {"Created"}, gas_left : GasLeft, data : {<<>>},
     address : {address}, err : {NoError}]
    \cup [tag : {"Reverted"}, gas_left : GasLeft, data : ReturnDatas,
          address : {ZeroAddress}, err : {NoError}]
    \cup [tag : {"Failed"}, gas_left : {0}, data : {<<>>},
          address : {ZeroAddress}, err : VmErrors]

\* a log emitted by the nested frame, which runs in the EVM space
NestedLogs ==
    {[address |-> a, space |-> "Ethereum", topics |-> <<"Transfer">>,
      data |-> <<>>] : a \in Receivers}

(***************************************************************************)
(* The producing side as a state machine.                                  *)
(***************************************************************************)
CtxNow == Ctx(balance, nonce, logs)

\* the number of nonce increments so far: every initiation, finalization and
\* withdrawal makes one, on a mapped account
NonceBumps == nonce[evm_map(1)] + nonce[evm_map(2)]

\* room for `bumps` more nonce increments and `entries` more log entries
Room(bumps, entries) ==
    /\ NonceBumps + bumps <= MaxBumps
    /\ Len(logs) + entries <= MaxLogs

\* `last` holds the result of the handler that has just returned, until the
\* executive has taken it
Idle == [op |-> "idle"]

Ret(r) == [ok |-> r.ok, err |-> r.err, trap |-> r.trap]

InitProducer ==
    /\ balance = [a \in Accounts |->
                    IF a = with_native_space(CROSS_SPACE_CONTRACT_ADDRESS)
                    THEN MaxLogs ELSE 0]
    /\ nonce = [a \in Accounts |-> account_start_nonce]
    /\ logs = <<>>
    /\ pending = NoTrap
    /\ last = Idle

InitRecoverIdle ==
    /\ rlogs = <<>>
    /\ ri = 1
    /\ gas_price = 0
    /\ phantom_txs = <<>>
    /\ maybe_working_tx = <<>>
    /\ fault = NoFault

Init == InitProducer /\ InitRecoverIdle

CallWith(GV) ==
    /\ last = Idle
    /\ pending = NoTrap
    /\ Room(2, 2)
    /\ \E sender \in Users, receiver \in Receivers, data \in CallDatas,
          call_type \in CallTypes, gv \in GV, depth \in Depths :
          /\ balance[with_native_space(CROSS_SPACE_CONTRACT_ADDRESS)] >= gv[2]
          /\ LET gas_left == gv[1]
                 params == Params(sender, gv[2])
                 r == call_to_evmcore(receiver, data, call_type, params,
                                      gas_left, depth, CtxNow)
             IN /\ balance' = r.ctx.balance
                /\ nonce' = r.ctx.nonce
                /\ logs' = r.ctx.logs
                /\ pending' = r.trap
                /\ last' = IF r.ok
                           THEN [op |-> "call", call_type |-> call_type,
                                 data |-> data, params |-> params,
                                 gas_left |-> gas_left, depth |-> depth,
                                 ret |-> Ret(r)]
                           ELSE [op |-> "call", depth |-> depth,
                                 ret |-> Ret(r)]
    /\ UNCHANGED recVars

Call == CallWith(GasAndValue)

CreateWith(GV) ==
    /\ last = Idle
    /\ pending = NoTrap
    /\ Room(2, 2)
    /\ \E sender \in Users, init \in CallDatas, salt \in Salts,
          gv \in GV, depth \in Depths :
          /\ balance[with_native_space(CROSS_SPACE_CONTRACT_ADDRESS)] >= gv[2]
          /\ LET gas_left == gv[1]
                 params == Params(sender, gv[2])
                 r == create_to_evmcore(init, salt, params, gas_left, depth,
                                        CtxNow)
             IN /\ balance' = r.ctx.balance
                /\ nonce' = r.ctx.nonce
                /\ logs' = r.ctx.logs
                /\ pending' = r.trap
                /\ last' = IF r.ok
                           THEN [op |-> "create", init |-> init,
                                 salt |-> salt, params |-> params,
                                 gas_left |-> gas_left, depth |-> depth,
                                 ret |-> Ret(r)]
                           ELSE [op |-> "create", depth |-> depth,
                                 ret |-> Ret(r)]
    /\ UNCHANGED recVars

Create == CreateWith(GasAndValue)

Withdraw ==
    /\ last = Idle
    /\ pending = NoTrap
    /\ Room(1, 1)
    /\ \E sender \in Users, value \in WithdrawValues, pvalue \in Values :
          LET params == Params(sender, pvalue)
              r == withdraw_from_evmcore(sender, value, params, CtxNow)
          IN /\ balance' = r.ctx.balance
             /\ nonce' = r.ctx.nonce
             /\ logs' = r.ctx.logs
             /\ pending' = pending
             /\ last' = IF r.ok
                        THEN [op |-> "withdraw", sender |-> sender,
                              value |-> value, params |-> params,
                              ret |-> Ret(r)]
                        ELSE [op |-> "withdraw", sender |-> sender,
                              value |-> value, ret |-> Ret(r)]
    /\ UNCHANGED recVars

\* the nested frame emits a log of its own
NestedLog ==
    /\ last = Idle
    /\ pending # NoTrap
    /\ Room(1, 2)
    /\ \E l \in NestedLogs : logs' = Append(logs, l)
    /\ UNCHANGED <<balance, nonce, pending, last>>
    /\ UNCHANGED recVars

\* the scheduler hands the outcome of the nested frame to the continuation,
\* and the PassResult it returns is executed
\* the gas the nested frame can have left of the gas it was given
AllOrNothing(gas) == {gas}

UpTo(gas) == {g \in 0 .. 3 : g <= gas} \cup {gas}

SubGas(wide, gas) == IF wide THEN UpTo(gas) ELSE AllOrNothing(gas)

FinishWith(wide, ReturnDatas) ==
    /\ last = Idle
    /\ pending # NoTrap
    /\ \E outcome \in (IF pending.kind = "Call"
                       THEN CallOutcomes(SubGas(wide, pending.next_params.gas),
                                         ReturnDatas)
                       ELSE CreateOutcomes(SubGas(wide, pending.next_params.gas),
                                           ReturnDatas,
                                           pending.next_params.address)) :
          LET pass == IF pending.kind = "Call"
                      THEN resume_call(pending.resume, outcome)
                      ELSE resume_create(pending.resume, outcome)
              r == PassResult_exec(pass, CtxNow)
          IN /\ balance' = r.ctx.balance
             /\ nonce' = r.ctx.nonce
             /\ logs' = r.ctx.logs
             /\ pending' = NoTrap
             /\ last' = [op |-> "finish", outcome |-> outcome,
                         resume |-> pending.resume,
                         call_type |-> pending.next_params.call_type,
                         ret |-> [ok |-> r.ok, err |-> r.err,
                                  gas_left |-> r.gas_left, data |-> r.data,
                                  apply_state |-> r.apply_state]]
    /\ UNCHANGED recVars

\* the executive takes the result of the handler (an error or a value goes
\* back to the caller's frame, a trap goes to the scheduler)
TakeResult ==
    /\ last # Idle
    /\ last' = Idle
    /\ UNCHANGED <<balance, nonce, logs, pending>>
    /\ UNCHANGED recVars

Finish == FinishWith(FALSE, Datas)

Next == Call \/ Create \/ Withdraw \/ NestedLog \/ Finish \/ TakeResult

Spec == Init /\ [][Next]_vars

(***************************************************************************)
(* SpecLive: one initiation, the nested frame and the continuation, under  *)
(* a scheduler that invokes every continuation it was handed and an        *)
(* executive that takes every result.                                      *)
(***************************************************************************)
CallLive == NonceBumps = 0 /\ CallWith(GasAndValue)

CreateLive == NonceBumps = 0 /\ CreateWith(GasAndValue)

NextLive == CallLive \/ CreateLive \/ NestedLog \/ Finish \/ TakeResult

SpecLive ==
    Init /\ [][NextLive]_vars /\ WF_vars(Finish) /\ WF_vars(TakeResult)

(***************************************************************************)
(* SpecWide: one initiation and its finalization, over every gas_left up   *)
(* to MaxGas, every gas the sub-frame can have left and return data that   *)
(* spans two 32-byte words.                                                *)
(***************************************************************************)
WideGasAndValue == (0 .. MaxGas) \X Values

WideDatas == {<<>>, <<7>>, Zeros(32), Zeros(33)}

CallWide == NonceBumps = 0 /\ CallWith(WideGasAndValue)

CreateWide == NonceBumps = 0 /\ CreateWith(WideGasAndValue)

FinishWide == FinishWith(TRUE, WideDatas)

NextWide == CallWide \/ CreateWide \/ FinishWide \/ TakeResult

SpecWide == Init /\ [][NextWide]_vars

(***************************************************************************)
(* recover_phantom as a state machine: one loop iteration per step, over   *)
(* every stream of at most MaxStream entries of StreamLogs.                *)
(***************************************************************************)
BridgeParams == [address |-> CROSS_SPACE_CONTRACT_ADDRESS]

EvmLog(a) ==
    [address |-> a, space |-> "Ethereum", topics |-> <<"Transfer">>,
     data |-> <<>>]

StreamLogs ==
    { EventLog(CallEventSig, <<keccak(1), 50>>, <<100, 5, 21000, <<>>>>,
               BridgeParams),
      EventLog(CallEventSig, <<keccak(2), 50>>, <<0, 0, 10, <<7, 0>>>>,
               BridgeParams),
      EventLog(CreateEventSig, <<keccak(1), 205>>, <<1, 1, 2310, <<7>>>>,
               BridgeParams),
      EventLog(ReturnEventSig, <<>>, <<6, 5000, TRUE>>, BridgeParams),
      EventLog(ReturnEventSig, <<>>, <<1, 0, FALSE>>, BridgeParams),
      EventLog(ReturnEventSig, <<>>, <<2, 100000, TRUE>>, BridgeParams),
      EventLog(WithdrawEventSig, <<keccak(1), 1>>, <<3, 7>>, BridgeParams),
      EventLog("Other", <<>>, <<>>, BridgeParams),
      EvmLog(50),
      EvmLog(CROSS_SPACE_CONTRACT_ADDRESS),
      [address |-> 9, space |-> "Native", topics |-> <<"Transfer">>,
       data |-> <<>>],
      [address |-> 51, space |-> "Ethereum", topics |-> <<"Approval">>,
       data |-> <<>>],
      [address |-> CROSS_SPACE_CONTRACT_ADDRESS, space |-> "Native",
       topics |-> <<>>, data |-> <<>>] }

Streams == UNION {[1 .. n -> StreamLogs] : n \in 0 .. MaxStream}

GasPrices == {1, 2}

InitProducerIdle ==
    /\ balance = [a \in Accounts |-> 0]
    /\ nonce = [a \in Accounts |-> account_start_nonce]
    /\ logs = <<>>
    /\ pending = NoTrap
    /\ last = Idle

InitRecover ==
    /\ InitProducerIdle
    /\ rlogs \in Streams
    /\ gas_price \in GasPrices
    /\ ri = 1
    /\ phantom_txs = <<>>
    /\ maybe_working_tx = <<>>
    /\ fault = NoFault

RecNow == RecState(phantom_txs, maybe_working_tx, fault)

RecoverStep ==
    /\ fault = NoFault
    /\ ri <= Len(rlogs)
    /\ LET st == recover_step(RecNow, rlogs[ri], gas_price)
       IN /\ phantom_txs' = st.phantom_txs
          /\ maybe_working_tx' = st.maybe_working_tx
          /\ fault' = st.fault
    /\ ri' = ri + 1
    /\ UNCHANGED <<rlogs, gas_price>>
    /\ UNCHANGED prodVars

NextRecover == RecoverStep

SpecRecover == InitRecover /\ [][NextRecover]_vars

(***************************************************************************)
(* Vocabulary of the properties.                                           *)
(***************************************************************************)
\* an entry the bridge contract emitted with signature sig
IsEvent(l, sig) ==
    /\ l.address = CROSS_SPACE_CONTRACT_ADDRESS
    /\ l.space = "Native"
    /\ l.topics # <<>>
    /\ l.topics[1] = sig

IsInitiation(l) == IsEvent(l, CallEventSig) \/ IsEvent(l, CreateEventSig)

\* the number of initiations of a stream that no ReturnEvent has closed
RECURSIVE OpenCount(_)
OpenCount(stream) ==
    IF stream = <<>> THEN 0
    ELSE LET before == OpenCount(SubSeq(stream, 1, Len(stream) - 1))
             l == stream[Len(stream)]
         IN CASE IsInitiation(l) -> before + 1
              [] IsEvent(l, ReturnEventSig) ->
                    IF before > 0 THEN before - 1 ELSE 0
              [] OTHER -> before

Prefix(stream, n) == SubSeq(stream, 1, n)

\* floor(a / b) and ceil(a / b), from their defining inequalities
FloorDiv(a, b) == CHOOSE q \in 0 .. a : q * b <= a /\ a < (q + 1) * b
CeilDiv(a, b) == CHOOSE q \in 0 .. a : q * b >= a /\ (q = 0 \/ (q - 1) * b < a)

Stipend(value) == IF value > 0 THEN call_stipend ELSE 0

LastLog == logs[Len(logs)]

(***************************************************************************)
(* C1.  Must-have-opened: every ReturnEvent of a stream the producing side *)
(* emits, whatever the call kind, is preceded by a CallEvent or            *)
(* CreateEvent that no earlier ReturnEvent has closed, so recover_phantom  *)
(* over the stream never unwraps an empty open-phantom slot.               *)
(***************************************************************************)
C1_MustHaveOpened ==
    /\ \A i \in 1 .. Len(logs) :
          IsEvent(logs[i], ReturnEventSig)
              => OpenCount(Prefix(logs, i - 1)) > 0
    /\ recover_phantom(logs, 1).fault # "unwrap_none"

(***************************************************************************)
(* C2.  Non-reentrancy: at every prefix of the stream of a strictly nested *)
(* execution at most one bridge call/create is open; no CallEvent or       *)
(* CreateEvent is appended while an earlier one is not closed.             *)
(***************************************************************************)
C2_NonReentrancy ==
    \A i \in 1 .. Len(logs) :
        /\ OpenCount(Prefix(logs, i)) <= 1
        /\ IsInitiation(logs[i]) => OpenCount(Prefix(logs, i - 1)) = 0

\* a second initiation has been logged after the first one was closed
C2_Witness ==
    \E i, j \in 1 .. Len(logs) :
        /\ i < j
        /\ IsInitiation(logs[i])
        /\ IsInitiation(logs[j])
        /\ pending # NoTrap

(***************************************************************************)
(* C3.  A finalization that runs out of gas on the return data (the        *)
(* outcome was Success, Created or Reverted) has appended a ReturnEvent    *)
(* with success = false, and the initiation event is still in the log.     *)
(***************************************************************************)
ForcedOutOfGas ==
    /\ last.op = "finish"
    /\ last.outcome.tag # "Failed"
    /\ ~last.ret.ok
    /\ last.ret.err = "OutOfGas"

C3_OutOfGasEventIsFailure ==
    ForcedOutOfGas =>
        /\ ~last.ret.apply_state
        /\ IsEvent(LastLog, ReturnEventSig)
        /\ LastLog.data[3] = FALSE
        /\ (last.call_type \in {"Call", "None"}
              => \E i \in 1 .. Len(logs) - 1 : IsInitiation(logs[i]))

(***************************************************************************)
(* C4.  Finalization arithmetic: with a payload of length L,               *)
(* G = gas_left + reserved_gas and cost = ceil(L / 32) * memory_gas, the   *)
(* result is OutOfGas with state-apply = false and no gas when G < cost,   *)
(* and otherwise the payload, the outcome's state-apply flag and           *)
(* gas_returned = G - cost.                                                *)
(***************************************************************************)
Payload(outcome) ==
    CASE outcome.tag = "Success" -> abi_encode_bytes(outcome.data)
      [] outcome.tag = "Created" -> abi_encode_bytes20(outcome.address)
      [] OTHER -> outcome.data

C4_FinalizationArithmetic ==
    (last.op = "finish" /\ last.outcome.tag # "Failed") =>
        LET L == Len(Payload(last.outcome))
            G == last.outcome.gas_left + last.resume.gas_retained
            cost == CeilDiv(L, 32) * memory_gas
        IN IF G < cost
           THEN /\ ~last.ret.ok
                /\ last.ret.err = "OutOfGas"
                /\ ~last.ret.apply_state
                /\ last.ret.gas_left = 0
           ELSE /\ last.ret.ok
                /\ last.ret.data = Payload(last.outcome)
                /\ last.ret.apply_state
                      = (last.outcome.tag \in {"Success", "Created"})
                /\ last.ret.gas_left = G - cost

\* a finalization whose gas exactly pays for a payload of several words
C4_Witness ==
    /\ last.op = "finish"
    /\ last.outcome.tag = "Success"
    /\ last.ret.ok
    /\ last.ret.gas_left = 0
    /\ Len(last.ret.data) > 64

(***************************************************************************)
(* C5.  Gas split of call and create: forwarded = floor(gas_left / ratio)  *)
(* plus the stipend when value > 0, reserved = gas_left - floor(gas_left / *)
(* ratio), and forwarded + reserved = gas_left + stipend-if-value.         *)
(***************************************************************************)
C5_GasSplit ==
    (last.op \in {"call", "create"} /\ last.ret.ok) =>
        LET g == last.gas_left
            v == last.params.value
            forwarded == last.ret.trap.next_params.gas
            reserved == last.ret.trap.resume.gas_retained
            q == FloorDiv(g, CROSS_SPACE_GAS_RATIO)
        IN /\ forwarded = q + Stipend(v)
           /\ reserved = g - q
           /\ forwarded + reserved = g + Stipend(v)

C5_Witness ==
    /\ last.op = "create"
    /\ last.ret.ok
    /\ last.params.value > 0
    /\ last.gas_left > CROSS_SPACE_GAS_RATIO
    /\ last.gas_left % CROSS_SPACE_GAS_RATIO # 0

(***************************************************************************)
(* C6.  Depth check: a call or create at a depth that is not below         *)
(* max_depth returns the depth error, raises no suspension request, and    *)
(* leaves every balance, every nonce and the log stream as they were.      *)
(***************************************************************************)
C6_DepthFailFast ==
    [][(last'.op \in {"call", "create"} /\ last'.depth >= max_depth) =>
          /\ ~last'.ret.ok
          /\ last'.ret.err = "Exceed Depth"
          /\ last'.ret.trap = NoTrap
          /\ pending' = NoTrap
          /\ balance' = balance
          /\ nonce' = nonce
          /\ logs' = logs]_vars

C6_Witness ==
    /\ last.op = "create"
    /\ last.depth >= max_depth
    /\ ~last.ret.ok
    /\ logs # <<>>
    /\ \E a \in Accounts : nonce[a] > 0

(***************************************************************************)
(* C7.  A successful withdraw(sender, value) moves exactly value from the  *)
(* mapped account to the native sender, increments the mapped account's    *)
(* nonce by one and appends one WithdrawEvent keyed by (mapped address,    *)
(* sender) with payload (value, nonce before the increment), whatever      *)
(* params the frame was called with.                                       *)
(***************************************************************************)
C7_WithdrawEffect ==
    [][(last'.op = "withdraw" /\ last'.ret.ok) =>
          LET sender == last'.sender
              value == last'.value
              mapped == evm_map(sender)
              native == with_native_space(sender)
          IN /\ balance' = [balance EXCEPT ![mapped] = @ - value,
                                           ![native] = @ + value]
             /\ nonce' = [nonce EXCEPT ![mapped] = @ + 1]
             /\ Len(logs') = Len(logs) + 1
             /\ Prefix(logs', Len(logs)) = logs
             /\ IsEvent(logs'[Len(logs')], WithdrawEventSig)
             /\ logs'[Len(logs')].topics
                    = <<WithdrawEventSig, mapped.address, sender>>
             /\ logs'[Len(logs')].data = <<value, nonce[mapped]>>]_vars

(***************************************************************************)
(* C8.  withdraw fails with the insufficient-balance error exactly when    *)
(* the mapped account's balance is below value, and then changes no        *)
(* balance, no nonce and appends nothing; otherwise it succeeds.           *)
(***************************************************************************)
C8_WithdrawBalanceCheck ==
    [][last'.op = "withdraw" =>
          IF balance[evm_map(last'.sender)] < last'.value
          THEN /\ ~last'.ret.ok
               /\ last'.ret.err
                    = "Not enough balance for withdrawing from mapped address"
               /\ balance' = balance
               /\ nonce' = nonce
               /\ logs' = logs
          ELSE last'.ret.ok]_vars

\* a withdrawal of the whole balance of a funded mapped account
C8_Witness ==
    /\ last.op = "withdraw"
    /\ last.ret.ok
    /\ last.value > 0
    /\ balance[evm_map(last.sender)] = 0

(***************************************************************************)
(* C9.  recover over one CallEvent or CreateEvent (from, to, value, nonce, *)
(* gas_limit, data) followed by one ReturnEvent (nonce', gas_left,         *)
(* success) emits the funding transfer from the zero address to `from` of  *)
(* value + (gas_limit + intrinsic_gas) * gas_price, the finalized phantom  *)
(* with gas_limit + intrinsic_gas as its gas limit,                        *)
(* gas_used = (gas_limit + intrinsic_gas) - gas_left and the outcome       *)
(* status of `success`, and the refund transfer from `from` to the zero    *)
(* address of gas_left * gas_price at nonce'.                              *)
(***************************************************************************)
OpenThenReturn ==
    /\ Len(rlogs) = 2
    /\ IsInitiation(rlogs[1])
    /\ IsEvent(rlogs[2], ReturnEventSig)
    /\ ri = 3

Transfer(from, to, nonce0, value) ==
    [from |-> from, nonce |-> nonce0, action |-> [kind |-> "Call", to |-> to],
     gas_limit |-> tx_gas, value |-> value, data |-> <<>>,
     gas_used |-> tx_gas, log_bloom |-> {}, logs |-> <<>>,
     outcome_status |-> TRANSACTION_OUTCOME_SUCCESS]

C9_Limit ==
    rlogs[1].data[3]
        + gas_required_for(IsEvent(rlogs[1], CreateEventSig), rlogs[1].data[4])

C9_Expected ==
    LET open == rlogs[1]
        ret == rlogs[2]
        from == open.topics[2]
        is_create == IsEvent(open, CreateEventSig)
    IN << Transfer(ZeroAddress, from, 0,
                   open.data[1] + C9_Limit * gas_price),
          [from |-> from, nonce |-> open.data[2],
           action |-> IF is_create
                      THEN [kind |-> "Create", to |-> ZeroAddress]
                      ELSE [kind |-> "Call", to |-> open.topics[3]],
           gas_limit |-> C9_Limit, value |-> open.data[1],
           data |-> open.data[4], gas_used |-> C9_Limit - ret.data[2],
           log_bloom |-> {}, logs |-> <<>>,
           outcome_status |->
               IF ret.data[3] THEN TRANSACTION_OUTCOME_SUCCESS
               ELSE TRANSACTION_OUTCOME_EXCEPTION_WITH_NONCE_BUMPING],
          Transfer(from, ZeroAddress, ret.data[1],
                   ret.data[2] * gas_price) >>

C10_WithdrawPhantom ==
    [][(/\ fault = NoFault
        /\ ri <= Len(rlogs)
        /\ IsEvent(rlogs[ri], WithdrawEventSig)
        /\ ri' = ri + 1) =>
          /\ fault' = NoFault
          /\ phantom_txs'
                = Append(phantom_txs,
                         Transfer(rlogs[ri].topics[2], ZeroAddress,
                                  rlogs[ri].data[2], rlogs[ri].data[1]))
          /\ maybe_working_tx' = maybe_working_tx]_vars

\* a WithdrawEvent was processed while a phantom with an attached log was
\* open
C10_Witness ==
    /\ ri > 1
    /\ IsEvent(rlogs[ri - 1], WithdrawEventSig)
    /\ fault = NoFault
    /\ maybe_working_tx # <<>>
    /\ maybe_working_tx[1].logs # <<>>

(***************************************************************************)
(* C11.  recover_phantom aborts with an integrity fault on every stream in *)
(* which a CallEvent or CreateEvent arrives while a phantom is open and on *)
(* every stream in which a ReturnEvent arrives while no phantom is open,   *)
(* and returns normally on every stream with neither violation.            *)
(***************************************************************************)
\* the pass over rlogs has ended: by a panic or at the end of the stream
RecoverDone == fault # NoFault \/ ri > Len(rlogs)

Reentrant(stream) ==
    \E i \in 1 .. Len(stream) :
        IsInitiation(stream[i]) /\ OpenCount(Prefix(stream, i - 1)) > 0

Orphaned(stream) ==
    \E i \in 1 .. Len(stream) :
        IsEvent(stream[i], ReturnEventSig)
            /\ OpenCount(Prefix(stream, i - 1)) = 0

IntegrityFaults == {"assert_is_none", "unwrap_none"}

RECURSIVE LastOpen(_)
LastOpen(stream) ==
    IF stream = <<>> THEN <<>>
    ELSE LET l == stream[Len(stream)]
             before == Prefix(stream, Len(stream) - 1)
         IN CASE IsInitiation(l) -> <<l>>
              [] IsEvent(l, ReturnEventSig) -> <<>>
              [] OTHER -> LastOpen(before)

AdjustedLimit(open) ==
    open.data[3]
        + gas_required_for(IsEvent(open, CreateEventSig), open.data[4])

\* a ReturnEvent hands back more gas than its phantom's gas limit
Overdrawn(stream) ==
    \E i \in 1 .. Len(stream) :
        /\ IsEvent(stream[i], ReturnEventSig)
        /\ LastOpen(Prefix(stream, i - 1)) # <<>>
        /\ stream[i].data[2] > AdjustedLimit(LastOpen(Prefix(stream, i - 1))[1])

\* a log of the bridge contract without a signature topic
Topicless(stream) ==
    \E i \in 1 .. Len(stream) :
        /\ stream[i].address = CROSS_SPACE_CONTRACT_ADDRESS
        /\ stream[i].topics = <<>>

OrAccrual(ls) == UNION {LogBloom(ls[i]) : i \in 1 .. Len(ls)}

C12_BloomOfOwnLogs ==
    \A i \in 1 .. Len(phantom_txs) :
        /\ phantom_txs[i].log_bloom = OrAccrual(phantom_txs[i].logs)
        /\ phantom_txs[i].logs = <<>> => phantom_txs[i].log_bloom = {}
        /\ phantom_txs[i].from = ZeroAddress => phantom_txs[i].logs = <<>>

\* a finalized phantom with two different logs attached
C12_Witness ==
    \E i \in 1 .. Len(phantom_txs) :
        /\ Len(phantom_txs[i].logs) = 2
        /\ phantom_txs[i].logs[1] # phantom_txs[i].logs[2]
        /\ LogBloom(phantom_txs[i].logs[1]) # LogBloom(phantom_txs[i].logs[2])
        /\ fault = NoFault

(***************************************************************************)
(* C13.  A failed or reverted sub-execution is not a bridge error: when    *)
(* the outcome is Failed or Reverted, and gas suffices for the return      *)
(* data, the ReturnEvent carries success = false and the bridge call       *)
(* completes normally, handing a non-error result to the caller's frame.   *)
(***************************************************************************)
GasSuffices ==
    last.outcome.gas_left + last.resume.gas_retained
        >= CeilDiv(Len(Payload(last.outcome)), 32) * memory_gas

C13_FailureIsNotBridgeError ==
    (/\ last.op = "finish"
     /\ last.outcome.tag \in {"Failed", "Reverted"}
     /\ GasSuffices) =>
        /\ IsEvent(LastLog, ReturnEventSig)
        /\ LastLog.data[3] = FALSE
        /\ last.ret.ok

(***************************************************************************)
(* C14.  Every open phantom closes: with a scheduler that invokes each     *)
(* continuation exactly once, every successful initiation is eventually    *)
(* followed by exactly one ReturnEvent, appended by its continuation       *)
(* whatever the outcome and also when finalization runs out of gas; once   *)
(* the continuations have run there are as many ReturnEvents as successful *)
(* initiations.                                                            *)
(***************************************************************************)
RECURSIVE ReturnEvents(_)
ReturnEvents(stream) ==
    IF stream = <<>> THEN 0
    ELSE ReturnEvents(Tail(stream))
            + (IF IsEvent(Head(stream), ReturnEventSig) THEN 1 ELSE 0)

\* a step is a successful initiation, or the run of a continuation, or
\* neither: the first hands one continuation to the scheduler and appends no
\* ReturnEvent, the second appends exactly one ReturnEvent at the end, the
\* third does neither
C14_StepCloses ==
    IF last'.op \in {"call", "create"} /\ last'.ret.ok
    THEN /\ pending = NoTrap
         /\ pending' # NoTrap
         /\ ReturnEvents(logs') = ReturnEvents(logs)
    ELSE IF pending # NoTrap /\ pending' = NoTrap
    THEN /\ last'.op = "finish"
         /\ logs' = Append(logs, logs'[Len(logs')])
         /\ IsEvent(logs'[Len(logs')], ReturnEventSig)
    ELSE /\ pending' = pending
         /\ ReturnEvents(logs') = ReturnEvents(logs)

C14_EveryOpenCloses ==
    /\ [][C14_StepCloses]_vars
    /\ (pending # NoTrap) ~> (pending = NoTrap)

\* a finalization that ran out of gas has closed an initiation whose nested
\* frame had logged
C14_Witness ==
    /\ last.op = "finish"
    /\ ~last.ret.ok
    /\ last.ret.err = "OutOfGas"
    /\ ReturnEvents(logs) = 1
    /\ Len(logs) > 2
    /\ pending = NoTrap

(***************************************************************************)
(* C15.  Event ordering: the CallEvent/CreateEvent is appended before the  *)
(* suspension request reaches the scheduler, hence before any log of the   *)
(* nested frame; the ReturnEvent is appended after every log of the nested *)
(* frame; the log stream is append-only.                                   *)
(***************************************************************************)
Appended == SubSeq(logs', Len(logs) + 1, Len(logs'))

C15_Step ==
    \* append-only: earlier entries are neither reordered nor removed
    /\ Len(logs') >= Len(logs)
    /\ Prefix(logs', Len(logs)) = logs
    \* the request is handed over with the initiation event already last
    /\ (pending = NoTrap /\ pending' # NoTrap) =>
          IF pending'.kind = "Create"
                \/ pending'.next_params.call_type = "Call"
          THEN /\ Len(Appended) = 1
               /\ IsInitiation(Appended[1])
               /\ Appended[1].topics[1]
                     = (IF pending'.kind = "Create" THEN CreateEventSig
                        ELSE CallEventSig)
          ELSE Appended = <<>>
    \* a log of the nested frame comes while the continuation is pending
    /\ (Appended # <<>> /\ Appended[1].space = "Ethereum") =>
          (pending # NoTrap /\ pending' = pending)
    \* the continuation appends the ReturnEvent after all of them
    /\ (pending # NoTrap /\ pending' = NoTrap) =>
          (Len(Appended) = 1 /\ IsEvent(Appended[1], ReturnEventSig))

C15_EventOrdering == [][C15_Step]_vars

\* an initiation event, two logs of the nested frame, the ReturnEvent
C15_Witness ==
    /\ last.op = "finish"
    /\ Len(logs) = 4
    /\ IsInitiation(logs[1])
    /\ logs[2].space = "Ethereum"
    /\ logs[3].space = "Ethereum"
    /\ IsEvent(logs[4], ReturnEventSig)

(***************************************************************************)
(* C16.  Initiation logging by kind: a call that passes the depth check    *)
(* increments the mapped sender's nonce by one for every call kind and     *)
(* appends a CallEvent with payload (value, nonce before the increment,    *)
(* forwarded gas, data) if and only if the kind is Call; a create always   *)
(* appends one CreateEvent with payload (value, nonce before the           *)
(* increment, forwarded gas, init code), with or without a salt.           *)
(***************************************************************************)
C16_Step ==
    (last'.op \in {"call", "create"} /\ last'.depth < max_depth) =>
        LET mapped == evm_map(last'.params.sender)
            forwarded == FloorDiv(last'.gas_left, CROSS_SPACE_GAS_RATIO)
                            + Stipend(last'.params.value)
        IN /\ last'.ret.ok
           /\ nonce' = [nonce EXCEPT ![mapped] = @ + 1]
           /\ Prefix(logs', Len(logs)) = logs
           /\ IF last'.op = "call"
              THEN IF last'.call_type = "Call"
                   THEN /\ Len(Appended) = 1
                        /\ IsEvent(Appended[1], CallEventSig)
                        /\ Appended[1].data
                              = <<last'.params.value, nonce[mapped],
                                  forwarded, last'.data>>
                   ELSE Appended = <<>>
              ELSE /\ Len(Appended) = 1
                   /\ IsEvent(Appended[1], CreateEventSig)
                   /\ Appended[1].data
                         = <<last'.params.value, nonce[mapped], forwarded,
                             last'.init>>

C16_InitiationLogging == [][C16_Step]_vars

\* a call of kind Call by a sender whose mapped nonce was already above the
\* start nonce
C16_Witness ==
    /\ last.op = "call"
    /\ last.ret.ok
    /\ last.call_type = "Call"
    /\ IsEvent(LastLog, CallEventSig)
    /\ LastLog.data[2] > 0

(***************************************************************************)
(* C17.  Completion event content: every finalization appends exactly one  *)
(* ReturnEvent with payload (the mapped sender's nonce before the          *)
(* increment, the sub-execution's gas_left, the state-apply flag) and      *)
(* increments that nonce by one; the flag is true exactly for Success and  *)
(* Created; a Reverted payload is passed through unchanged and a Failed    *)
(* outcome keeps its original error.                                       *)
(***************************************************************************)
C17_Step ==
    last'.op = "finish" =>
        LET mapped == evm_map(last'.resume.params.sender)
            outcome == last'.outcome
            pass == IF pending.kind = "Call"
                    THEN resume_call(last'.resume, outcome)
                    ELSE resume_create(last'.resume, outcome)
        IN /\ nonce' = [nonce EXCEPT ![mapped] = @ + 1]
           /\ balance' = balance
           /\ Prefix(logs', Len(logs)) = logs
           /\ Len(Appended) = 1
           /\ IsEvent(Appended[1], ReturnEventSig)
           /\ Appended[1].topics = <<ReturnEventSig>>
           /\ Appended[1].data
                 = <<nonce[mapped],
                     IF outcome.tag = "Failed" THEN 0 ELSE outcome.gas_left,
                     outcome.tag \in {"Success", "Created"}>>
           /\ pass.apply_state = (outcome.tag \in {"Success", "Created"})
           /\ outcome.tag = "Reverted" =>
                 /\ pass.return_data = OkData(outcome.data)
                 /\ last'.ret.ok => last'.ret.data = outcome.data
           /\ outcome.tag = "Failed" =>
                 /\ pass.return_data = ErrData(outcome.err)
                 /\ ~last'.ret.ok
                 /\ last'.ret.err = outcome.err

C17_CompletionEvent == [][C17_Step]_vars

\* a reverted sub-execution with a payload and gas left, finalized for a
\* sender whose mapped nonce was above one
C17_Witness ==
    /\ last.op = "finish"
    /\ last.outcome.tag = "Reverted"
    /\ last.outcome.data # <<>>
    /\ last.outcome.gas_left > 0
    /\ last.ret.ok
    /\ LastLog.data[1] > 1

(***************************************************************************)
(* C18.  Log attachment in recover_phantom: every EVM-space log seen while *)
(* a phantom is open is appended verbatim to that phantom's logs, also     *)
(* when its raw emitter address is the bridge contract's; EVM-space logs   *)
(* seen while no phantom is open and native-space logs not emitted by the  *)
(* bridge are attached to nothing and produce no phantom; the finalized    *)
(* phantom carries exactly the logs attached between its initiation and    *)
(* its ReturnEvent.                                                        *)
(***************************************************************************)
C18_Step ==
    (fault = NoFault /\ ri <= Len(rlogs) /\ ri' = ri + 1) =>
        LET log == rlogs[ri]
        IN /\ (log.space = "Ethereum" /\ maybe_working_tx # <<>>) =>
                 /\ fault' = NoFault
                 /\ phantom_txs' = phantom_txs
                 /\ maybe_working_tx'
                       = <<[maybe_working_tx[1] EXCEPT
                               !.logs = Append(@, log)]>>
           /\ ((log.space = "Ethereum" /\ maybe_working_tx = <<>>)
                 \/ (log.space = "Native"
                       /\ log.address # CROSS_SPACE_CONTRACT_ADDRESS)) =>
                 /\ fault' = NoFault
                 /\ phantom_txs' = phantom_txs
                 /\ maybe_working_tx' = maybe_working_tx
           /\ (IsEvent(log, ReturnEventSig) /\ fault' = NoFault) =>
                 /\ Len(phantom_txs') = Len(phantom_txs) + 2
                 /\ phantom_txs'[Len(phantom_txs) + 1].logs
                       = maybe_working_tx[1].logs
           /\ (IsInitiation(log) /\ fault' = NoFault) =>
                 maybe_working_tx'[1].logs = <<>>

C18_LogAttachment == [][C18_Step]_vars

(***************************************************************************)
(* C19.  Nonce uniqueness: in every stream the producing side emits, the   *)
(* nonces carried by the events of one mapped account are strictly         *)
(* increasing in stream order, so no two phantom transactions that         *)
(* recover_phantom makes of it, with the same non-zero `from`, have the    *)
(* same nonce.                                                             *)
(***************************************************************************)
\* the mapped account an event of the stream belongs to (<<>> if none can
\* be told from the stream) and the nonce it carries
EventAccount(stream, i) ==
    LET l == stream[i]
    IN CASE IsInitiation(l) \/ IsEvent(l, WithdrawEventSig) -> <<l.topics[2]>>
         [] IsEvent(l, ReturnEventSig) ->
               IF LastOpen(Prefix(stream, i - 1)) = <<>> THEN <<>>
               ELSE <<LastOpen(Prefix(stream, i - 1))[1].topics[2]>>
         [] OTHER -> <<>>

EventNonce(l) == IF IsEvent(l, ReturnEventSig) THEN l.data[1] ELSE l.data[2]

C19_NonceUniqueness ==
    /\ \A i, j \in 1 .. Len(logs) :
          (/\ i < j
           /\ EventAccount(logs, i) # <<>>
           /\ EventAccount(logs, i) = EventAccount(logs, j))
              => EventNonce(logs[i]) < EventNonce(logs[j])
    /\ LET txs == recover_phantom(logs, 1).phantom_txs
       IN \A i, j \in 1 .. Len(txs) :
             (i < j /\ txs[i].from # ZeroAddress /\ txs[i].from = txs[j].from)
                 => txs[i].nonce # txs[j].nonce

\* the finalized phantom, its refund and a withdrawal of one account
C19_Witness ==
    LET r == recover_phantom(logs, 1)
    IN /\ r.fault = NoFault
       /\ \E i, j, k \in 1 .. Len(r.phantom_txs) :
             /\ i < j /\ j < k
             /\ r.phantom_txs[i].from # ZeroAddress
             /\ r.phantom_txs[i].from = r.phantom_txs[j].from
             /\ r.phantom_txs[j].from = r.phantom_txs[k].from
       /\ \E i \in 1 .. Len(logs) : IsEvent(logs[i], WithdrawEventSig)

(***************************************************************************)
(* C20.  Funding conservation in recover_phantom: for every initiation     *)
(* event closed by a ReturnEvent, the value of the funding transfer equals *)
(* the finalized phantom's value plus gas_used * gas_price plus the value  *)
(* of the refund transfer, for every gas_price and every gas_left not      *)
(* above the phantom's gas_limit.                                          *)
(***************************************************************************)
\* the last transfer from the zero address: the funding of the open phantom
RECURSIVE LastFunding(_)
LastFunding(txs) ==
    IF txs[Len(txs)].from = ZeroAddress THEN txs[Len(txs)]
    ELSE LastFunding(SubSeq(txs, 1, Len(txs) - 1))

C20_Step ==
    (/\ fault = NoFault
     /\ ri <= Len(rlogs)
     /\ ri' = ri + 1
     /\ IsEvent(rlogs[ri], ReturnEventSig)
     /\ maybe_working_tx # <<>>
     /\ rlogs[ri].data[2] <= maybe_working_tx[1].gas_limit) =>
        LET n == Len(phantom_txs)
            funding == LastFunding(phantom_txs)
            closed == phantom_txs'[n + 1]
            refund == phantom_txs'[n + 2]
        IN /\ fault' = NoFault
           /\ Len(phantom_txs') = n + 2
           /\ Prefix(phantom_txs', n) = phantom_txs
           /\ closed.from = funding.action.to
           /\ refund.from = closed.from
           /\ refund.action.to = ZeroAddress
           /\ closed.gas_used <= closed.gas_limit
           /\ funding.value
                 = closed.value + closed.gas_used * gas_price + refund.value

C20_FundingConservation == [][C20_Step]_vars

\* a phantom with a value was closed with gas left at a gas price above one,
\* after a withdrawal was seen between its funding and its ReturnEvent
C20_Witness ==
    /\ fault = NoFault
    /\ gas_price > 1
    /\ Len(phantom_txs) = 4
    /\ phantom_txs[1].from = ZeroAddress
    /\ phantom_txs[3].value > 0
    /\ phantom_txs[3].gas_used > 0
    /\ phantom_txs[4].value > 0

(***************************************************************************)
(* C21.  gas_used never underflows on the streams the producing side       *)
(* emits: when a sub-execution returns no more gas than its frame was      *)
(* given, the gas_left of every ReturnEvent is at most the forwarded gas   *)
(* of the CallEvent/CreateEvent it closes (and 0 for a Failed outcome), so *)
(* recover_phantom never subtracts below zero and every finalized phantom  *)
(* has intrinsic_gas <= gas_used <= gas_limit.                             *)
(***************************************************************************)
\* the phantoms recover_phantom finalized: each directly follows its funding
\* when no withdrawal came in between
Finalized(txs) ==
    {i \in 2 .. Len(txs) :
        txs[i - 1].from = ZeroAddress /\ txs[i].from # ZeroAddress}

C21_GasUsedNeverUnderflows ==
    /\ \A i \in 1 .. Len(logs) :
          (IsEvent(logs[i], ReturnEventSig)
              /\ LastOpen(Prefix(logs, i - 1)) # <<>>)
             => logs[i].data[2] <= LastOpen(Prefix(logs, i - 1))[1].data[3]
    /\ (last.op = "finish" /\ last.outcome.tag = "Failed")
          => LastLog.data[2] = 0
    /\ \A price \in GasPrices :
          LET r == recover_phantom(logs, price)
          IN /\ r.fault # "sub_overflow"
             /\ \A i \in Finalized(r.phantom_txs) :
                   LET tx == r.phantom_txs[i]
                       intrinsic ==
                           gas_required_for(tx.action.kind = "Create", tx.data)
                   IN /\ intrinsic <= tx.gas_used
                      /\ tx.gas_used <= tx.gas_limit

\* a sub-execution handed back some, but not all, of the gas it was given,
\* and recover_phantom finalized its phantom
C21_Witness ==
    /\ last.op = "finish"
    /\ last.outcome.gas_left > 0
    /\ Len(logs) = 2
    /\ IsInitiation(logs[1])
    /\ last.outcome.gas_left < logs[1].data[3]
    /\ recover_phantom(logs, 2).fault = NoFault
    /\ Finalized(recover_phantom(logs, 2).phantom_txs) = {2}

====
